---------------------------- MODULE Spec2Model ----------------------------
(***************************************************************************)
(* A model of echolab2.processing.processed_data (pyEcholab): the grid of  *)
(* sample data indexed [ping, sample], its ping_time and range/depth axes, *)
(* and the operations that resize, pad, resample, shift, convert, insert,  *)
(* replace, slice and mask it.                                             *)
(*                                                                         *)
(* Conventions                                                             *)
(*  - a 1d numpy array is a sequence, a 2d array a sequence of rows;       *)
(*    TLA+ sequences count from 1, so python index i is element i + 1.     *)
(*    Index arrays, slices and get_indices results keep python's 0-based   *)
(*    values and are converted where they are used.                        *)
(*  - floats are integers: axis values in whole metres, log values in dB   *)
(*    (multiples of 10), linear values their powers of ten.  The inputs    *)
(*    are chosen so that every resampling point falls on a sample of the   *)
(*    axis it is resampled from, where np.interp is exact.                 *)
(*  - every method is an operator that returns the objects it leaves       *)
(*    behind and the exception it raised ("" when it returned).            *)
(*  - sample_data (the parent class) and mask.mask are not part of the     *)
(*    sources; what the model needs of them is modelled from the design    *)
(*    document and marked so.                                              *)
(***************************************************************************)
EXTENDS Integers, Sequences, FiniteSets, TLC

VARIABLES g,      \* the processed_data object the operations are called on
          pre,    \* g as it was when the last operation was called
          src,    \* obj_to_insert of the last insert/replace, after the call
          d,      \* the object last derived from g (slice or copy)
          alias,  \* names of d's arrays that share storage with g's arrays
          op,     \* the last operation: its name, arguments and outcome
          nops    \* number of operations called so far

vars == <<g, pre, src, d, alias, op, nops>>

----------------------------------------------------------------------------
(* Bounds of the model *)

MaxPings == 3
MaxSamples == 3
MaxOps == 2

----------------------------------------------------------------------------
(* Values *)

\* np.nan: an absent sample (and NaT in ping_time)
NaN == -9999

\* the error value of a call that returned normally
OK == ""

Abs(x) == IF x < 0 THEN -x ELSE x

Add(a, b) == IF a = NaN \/ b = NaN THEN NaN ELSE a + b

Mul(a, b) == IF a = NaN \/ b = NaN THEN NaN ELSE a * b

HasNaN(a) == \E i \in 1..Len(a) : a[i] = NaN

\* np.min of a 1d array: NaN when any element is NaN
Min(a) == IF HasNaN(a) THEN NaN
          ELSE CHOOSE m \in {a[i] : i \in 1..Len(a)} :
                 \A i \in 1..Len(a) : m <= a[i]

\* np.max of a 1d array
Max(a) == IF HasNaN(a) THEN NaN
          ELSE CHOOSE m \in {a[i] : i \in 1..Len(a)} :
                 \A i \in 1..Len(a) : m >= a[i]

\* np.arange(n) * step + first
Arange(n, step, first) == [i \in 1..n |-> Add(Mul(i - 1, step), first)]

\* array + scalar
AddScalar(a, c) == [i \in 1..Len(a) |-> Add(a[i], c)]

\* np.ceil(a / b) for a >= 0, b > 0
CeilDiv(a, b) == (a + b - 1) \div b

\* np.mean(np.ediff1d(a)): the mean of the consecutive differences, NaN for
\* fewer than two elements or when an element is NaN
MeanDiff(a) ==
  IF Len(a) < 2 \/ HasNaN(a) THEN NaN
  ELSE LET RECURSIVE sum(_)
           sum(i) == IF i = 0 THEN 0 ELSE (a[i + 1] - a[i]) + sum(i - 1)
       IN sum(Len(a) - 1) \div (Len(a) - 1)

\* np.isclose(a, b) with rtol = 1e-5, atol = 1e-8: |a - b| <= atol + rtol * |b|.
\* Times 1e5: 100000 * |a - b| <= 0.001 + |b|, and between integers the 0.001
\* decides nothing, so |a - b| <= |b| div 100000.  NaN is close to nothing.
IsClose(a, b) == a # NaN /\ b # NaN /\ Abs(a - b) <= Abs(b) \div 100000

\* np.all(np.isclose(a, b)) for arrays of one length
AllClose(a, b) == \A i \in 1..Len(a) : IsClose(a[i], b[i])

\* np.array_equal(a, b): same shape, same elements (NaN equals nothing)
ArrayEqual(a, b) == Len(a) = Len(b) /\ \A i \in 1..Len(a) : a[i] # NaN /\ a[i] = b[i]

\* 10 ** n
RECURSIVE Pow10(_)
Pow10(n) == IF n = 0 THEN 1 ELSE 10 * Pow10(n - 1)

\* largest exponent of the table of np.log10
MaxExp == 4

\* np.log10 of a power of ten
Log10(x) == CHOOSE k \in 0..MaxExp : Pow10(k) = x

\* 10.0 ** (v / 10.0) for one sample
ToLinearVal(v) == IF v = NaN THEN NaN ELSE Pow10(v \div 10)

\* 10.0 * np.log10(x) for one sample
ToLogVal(x) == IF x = NaN THEN NaN ELSE 10 * Log10(x)

\* 10.0 ** (a / 10.0) for a 2d array
ToLinearArray(m) == [i \in 1..Len(m) |-> [j \in 1..Len(m[i]) |-> ToLinearVal(m[i][j])]]

\* 10.0 * np.log10(a) for a 2d array
ToLogArray(m) == [i \in 1..Len(m) |-> [j \in 1..Len(m[i]) |-> ToLogVal(m[i][j])]]

\* np.interp(x, xp, fp, left=nan, right=nan) at one point, xp increasing:
\* fp[j] on a sample point, the line through the neighbours between two
\* sample points (NaN when a neighbour is NaN), NaN outside xp
InterpAt(x, xp, fp) ==
  IF x = NaN THEN NaN
  ELSE IF x < xp[1] \/ x > xp[Len(xp)] THEN NaN
  ELSE IF \E j \in 1..Len(xp) : xp[j] = x
       THEN fp[CHOOSE j \in 1..Len(xp) : xp[j] = x]
  ELSE LET j == CHOOSE k \in 1..(Len(xp) - 1) : xp[k] < x /\ x < xp[k + 1]
       IN IF fp[j] = NaN \/ fp[j + 1] = NaN THEN NaN
          ELSE fp[j] + ((fp[j + 1] - fp[j]) * (x - xp[j])) \div (xp[j + 1] - xp[j])

Interp(x, xp, fp) == [i \in 1..Len(x) |-> InterpAt(x[i], xp, fp)]

\* a[:n]
Prefix(a, n) == [i \in 1..(IF n < Len(a) THEN n ELSE Len(a)) |-> a[i]]

----------------------------------------------------------------------------
(* The attribute registry of a data object *)

AxisNames == {"range", "depth"}

\* hasattr(obj, name) for the vertical axis attributes
hasattr(obj, name) == name \in DOMAIN obj.axes

PutKey(f, k, v) == [x \in (DOMAIN f) \cup {k} |-> IF x = k THEN v ELSE f[x]]

DropKey(f, k) == [x \in (DOMAIN f) \ {k} |-> f[x]]

\* the names of the 2d sample data arrays, in the order of _data_attributes
Names2D(obj) == SelectSeq(obj.data_attributes, LAMBDA n : n \in DOMAIN obj.arrays)

\* the vertical axis the methods pick: range when present, else depth
VAxisName(obj) == IF hasattr(obj, "range") THEN "range" ELSE "depth"

VAxis(obj) == obj.axes[VAxisName(obj)]

\* sample_data.add_attribute: register a named array
add_attribute(obj, name, data) ==
  LET listed == IF \E i \in 1..Len(obj.data_attributes) : obj.data_attributes[i] = name
                THEN obj.data_attributes
                ELSE Append(obj.data_attributes, name)
  IN IF name = "ping_time"
     THEN [obj EXCEPT !.ping_time = data, !.data_attributes = listed]
     ELSE IF name \in AxisNames
     THEN [obj EXCEPT !.axes = PutKey(obj.axes, name, data), !.data_attributes = listed]
     ELSE [obj EXCEPT !.arrays = PutKey(obj.arrays, name, data), !.data_attributes = listed]

\* sample_data.remove_attribute: drop a named array
remove_attribute(obj, name) ==
  [obj EXCEPT !.axes = DropKey(obj.axes, name),
              !.arrays = DropKey(obj.arrays, name),
              !.data_attributes = SelectSeq(obj.data_attributes, LAMBDA n : n # name)]

Resize1D(a, n) == [i \in 1..n |-> IF i <= Len(a) THEN a[i] ELSE NaN]

Resize2D(m, p, s) ==
  [i \in 1..p |-> [j \in 1..s |-> IF i <= Len(m) /\ j <= Len(m[i]) THEN m[i][j] ELSE NaN]]

\* sample_data.resize: every registered array takes the new dimensions, old
\* elements stay in place and new ones are absent; n_samples is updated,
\* n_pings is left to the caller
sample_data_resize(obj, new_ping_dim, new_sample_dim) ==
  [obj EXCEPT !.arrays = [n \in DOMAIN obj.arrays |->
                            Resize2D(obj.arrays[n], new_ping_dim, new_sample_dim)],
              !.axes = [n \in DOMAIN obj.axes |-> Resize1D(obj.axes[n], new_sample_dim)],
              !.ping_time = Resize1D(obj.ping_time, new_ping_dim),
              !.n_samples = new_sample_dim]


----------------------------------------------------------------------------
(* processed_data: resize, pad_top, to_linear, to_log, interpolate, shift_pings *)

\* the result of a method: the object as the method leaves it, and the
\* exception it raised
Ret(obj, e) == [g |-> obj, err |-> e]

\* processed_data.resize.  The regenerated axis is bound to the local name
\* vaxis only; the axis attribute is whatever the parent's resize leaves.
resize(obj, new_ping_dim, new_sample_dim) ==
  IF ~hasattr(obj, "range") /\ ~hasattr(obj, "depth")
  THEN Ret(obj, "AttributeError")
  ELSE LET vaxis == Arange(new_sample_dim, obj.sample_thickness, VAxis(obj)[1])
           r == sample_data_resize(obj, new_ping_dim, new_sample_dim)
       IN Ret([r EXCEPT !.n_pings = Len(r.ping_time)], OK)

\* processed_data.pad_top
pad_top(obj, n_samples) ==
  LET old_samples == obj.n_samples
      rs == resize(obj, obj.n_pings, obj.n_samples + n_samples)
      r == rs.g
      name == VAxisName(r)
      attr == r.axes[name]
      new_attr == [i \in 1..Len(attr) |->
                     Add(Mul((i - 1) - n_samples, r.sample_thickness), attr[1])]
      shifted(m) == [i \in 1..Len(m) |-> [j \in 1..Len(m[i]) |->
                       IF j <= n_samples THEN NaN ELSE m[i][j - n_samples]]]
  IN IF rs.err # OK THEN rs
     ELSE Ret([r EXCEPT !.axes = PutKey(r.axes, name, new_attr),
                        !.arrays = [k \in DOMAIN r.arrays |-> shifted(r.arrays[k])]], OK)

\* processed_data.to_linear
to_linear(obj) ==
  IF obj.data_type = "Sv"
  THEN remove_attribute(
         [add_attribute(obj, "sv", ToLinearArray(obj.arrays["Sv"]))
            EXCEPT !.data_type = "sv"], "Sv")
  ELSE IF obj.data_type = "Sp"
  THEN remove_attribute(
         [add_attribute(obj, "sp", ToLinearArray(obj.arrays["Sp"]))
            EXCEPT !.data_type = "sp"], "Sp")
  ELSE obj

\* to_log without remove_attribute of the linear array
to_log_keeps_linear(obj) ==
  IF obj.data_type = "sv"
  THEN [add_attribute(obj, "Sv", ToLogArray(obj.arrays["sv"])) EXCEPT !.data_type = "Sv"]
  ELSE IF obj.data_type = "sp"
  THEN [add_attribute(obj, "Sp", ToLogArray(obj.arrays["sp"])) EXCEPT !.data_type = "Sp"]
  ELSE obj

\* processed_data.to_log
to_log(obj) ==
  IF obj.data_type = "sv"
  THEN remove_attribute(
         [add_attribute(obj, "Sv", ToLogArray(obj.arrays["sv"]))
            EXCEPT !.data_type = "Sv"], "sv")
  ELSE IF obj.data_type = "sp"
  THEN remove_attribute(
         [add_attribute(obj, "Sp", ToLogArray(obj.arrays["sp"]))
            EXCEPT !.data_type = "Sp"], "sp")
  ELSE obj

\* data_type[0] == 'S'
IsLogType(data_type) == data_type \in {"Sv", "Sp"}

\* interpolate with the update of sample_thickness moved before the test for
\* an axis that is close to the current one
interpolate_thickness_first(obj, new_vaxis) ==
  IF ~hasattr(obj, "range") /\ ~hasattr(obj, "depth")
  THEN Ret(obj, "AttributeError")
  ELSE
    LET old_vaxis == VAxis(obj)
        differ == Len(new_vaxis) # obj.n_samples
        r0 == [obj EXCEPT !.sample_thickness = MeanDiff(new_vaxis)]
        r1 == IF differ THEN resize(r0, r0.n_pings, Len(new_vaxis)).g ELSE r0
    IN IF ~differ /\ AllClose(old_vaxis, new_vaxis)
       THEN Ret(r0, OK)
       ELSE
         LET is_log == IsLogType(r1.data_type)
             r3 == IF is_log THEN to_linear(r1) ELSE r1
             fits == r3.n_samples >= Len(old_vaxis)
             r4 == [r3 EXCEPT !.arrays = [k \in DOMAIN r3.arrays |->
                      [ping \in 1..Len(r3.arrays[k]) |->
                         Interp(new_vaxis, old_vaxis,
                                Prefix(r3.arrays[k][ping], Len(old_vaxis)))]]]
         IN IF ~fits /\ r3.n_pings > 0 /\ DOMAIN r3.arrays # {}
            THEN Ret(r3, "ValueError")
            ELSE Ret(IF is_log THEN to_log(r4) ELSE r4, OK)

\* processed_data.interpolate.  np.interp raises ValueError when fp
\* (attr[ping, :old length], cut to the resized width) and xp (the old axis)
\* differ in length; by then the object is resized and in linear units.
interpolate(obj, new_vaxis) ==
  IF ~hasattr(obj, "range") /\ ~hasattr(obj, "depth")
  THEN Ret(obj, "AttributeError")
  ELSE
    LET old_vaxis == VAxis(obj)
        differ == Len(new_vaxis) # obj.n_samples
        r1 == IF differ THEN resize(obj, obj.n_pings, Len(new_vaxis)).g ELSE obj
    IN IF ~differ /\ AllClose(old_vaxis, new_vaxis)
       THEN Ret(obj, OK)
       ELSE
         LET r2 == [r1 EXCEPT !.sample_thickness = MeanDiff(new_vaxis)]
             is_log == IsLogType(r2.data_type)
             r3 == IF is_log THEN to_linear(r2) ELSE r2
             fits == r3.n_samples >= Len(old_vaxis)
             r4 == [r3 EXCEPT !.arrays = [k \in DOMAIN r3.arrays |->
                      [ping \in 1..Len(r3.arrays[k]) |->
                         Interp(new_vaxis, old_vaxis,
                                Prefix(r3.arrays[k][ping], Len(old_vaxis)))]]]
         IN IF ~fits /\ r3.n_pings > 0 /\ DOMAIN r3.arrays # {}
            THEN Ret(r3, "ValueError")
            ELSE Ret(IF is_log THEN to_log(r4) ELSE r4, OK)

\* shift_pings without remove_attribute('range') after the depth axis is added
shift_pings_keeps_range(obj, vert_shift, to_depth_arg) ==
  IF ~hasattr(obj, "range") /\ ~hasattr(obj, "depth")
  THEN Ret(obj, "AttributeError")
  ELSE
    LET min_shift == Min(vert_shift.v)
        max_shift == Max(vert_shift.v)
        vert_ext == max_shift - min_shift
        vert_axis == VAxis(obj)
        to_depth == IF hasattr(obj, "range") THEN to_depth_arg ELSE FALSE
        old_samps == obj.n_samples
        new_samps == CeilDiv(vert_ext, obj.sample_thickness)
        r1 == IF vert_ext # 0
              THEN resize(obj, obj.n_pings, obj.n_samples + new_samps).g
              ELSE obj
        new_axis == AddScalar(AddScalar(Arange(r1.n_samples, r1.sample_thickness, 0),
                                        Min(vert_axis)), min_shift)
        is_log == IsLogType(r1.data_type)
        r2 == IF is_log THEN to_linear(r1) ELSE r1
        r3 == [r2 EXCEPT !.arrays = [k \in DOMAIN r2.arrays |->
                 [ping \in 1..Len(r2.arrays[k]) |->
                    Interp(new_axis, AddScalar(vert_axis, vert_shift.v[ping]),
                           Prefix(r2.arrays[k][ping], old_samps))]]]
        r4 == IF vert_ext # 0 THEN (IF is_log THEN to_log(r3) ELSE r3) ELSE r1
        r5 == IF to_depth
              THEN add_attribute(r4, "depth", new_axis)
              ELSE r4
    IN Ret(r5, OK)

\* shift_pings that stores the new axis in the axis attribute when to_depth
\* is false
shift_pings_stores_axis(obj, vert_shift, to_depth_arg) ==
  IF ~hasattr(obj, "range") /\ ~hasattr(obj, "depth")
  THEN Ret(obj, "AttributeError")
  ELSE
    LET min_shift == Min(vert_shift.v)
        max_shift == Max(vert_shift.v)
        vert_ext == max_shift - min_shift
        vert_axis == VAxis(obj)
        to_depth == IF hasattr(obj, "range") THEN to_depth_arg ELSE FALSE
        old_samps == obj.n_samples
        new_samps == CeilDiv(vert_ext, obj.sample_thickness)
        r1 == IF vert_ext # 0
              THEN resize(obj, obj.n_pings, obj.n_samples + new_samps).g
              ELSE obj
        new_axis == AddScalar(AddScalar(Arange(r1.n_samples, r1.sample_thickness, 0),
                                        Min(vert_axis)), min_shift)
        is_log == IsLogType(r1.data_type)
        r2 == IF is_log THEN to_linear(r1) ELSE r1
        r3 == [r2 EXCEPT !.arrays = [k \in DOMAIN r2.arrays |->
                 [ping \in 1..Len(r2.arrays[k]) |->
                    Interp(new_axis, AddScalar(vert_axis, vert_shift.v[ping]),
                           Prefix(r2.arrays[k][ping], old_samps))]]]
        r4 == IF vert_ext # 0 THEN (IF is_log THEN to_log(r3) ELSE r3) ELSE r1
        r5 == IF to_depth
              THEN remove_attribute(add_attribute(r4, "depth", new_axis), "range")
              ELSE [r4 EXCEPT !.axes = PutKey(r4.axes, VAxisName(r4), new_axis)]
    IN Ret(r5, OK)

\* processed_data.shift_pings; vert_shift is [scalar |-> BOOLEAN, v |-> values].
\* Without to_depth the new axis is bound to the local name vert_axis only.
shift_pings(obj, vert_shift, to_depth_arg) ==
  IF ~hasattr(obj, "range") /\ ~hasattr(obj, "depth")
  THEN Ret(obj, "AttributeError")
  ELSE
    LET min_shift == Min(vert_shift.v)
        max_shift == Max(vert_shift.v)
        vert_ext == max_shift - min_shift
        vert_axis == VAxis(obj)
        to_depth == IF hasattr(obj, "range") THEN to_depth_arg ELSE FALSE
        old_samps == obj.n_samples
        new_samps == CeilDiv(vert_ext, obj.sample_thickness)
        r1 == IF vert_ext # 0
              THEN resize(obj, obj.n_pings, obj.n_samples + new_samps).g
              ELSE obj
        new_axis == AddScalar(AddScalar(Arange(r1.n_samples, r1.sample_thickness, 0),
                                        Min(vert_axis)), min_shift)
        is_log == IsLogType(r1.data_type)
        r2 == IF is_log THEN to_linear(r1) ELSE r1
        r3 == [r2 EXCEPT !.arrays = [k \in DOMAIN r2.arrays |->
                 [ping \in 1..Len(r2.arrays[k]) |->
                    Interp(new_axis, AddScalar(vert_axis, vert_shift.v[ping]),
                           Prefix(r2.arrays[k][ping], old_samps))]]]
        r4 == IF vert_ext # 0 THEN (IF is_log THEN to_log(r3) ELSE r3) ELSE r1
        r5 == IF to_depth
              THEN remove_attribute(add_attribute(r4, "depth", new_axis), "range")
              ELSE r4
    IN Ret(r5, OK)


----------------------------------------------------------------------------
(* Construction, copies, and the parent's ping-axis primitives *)

\* the empty function: no attribute registered
NoAttrs == [x \in {} |-> <<>>]

\* sample_data.__init__: no data, no registered attribute
sample_data_init ==
  [n_pings |-> 0, n_samples |-> 0, data_attributes |-> <<>>,
   ping_time |-> <<>>, axes |-> NoAttrs, arrays |-> NoAttrs]

\* processed_data.__init__
processed_data(channel_id, frequency, data_type) ==
  [channel_id |-> channel_id,
   frequency |-> frequency,
   data_type |-> data_type,
   sample_thickness |-> 0,
   sample_offset |-> 0,
   n_pings |-> sample_data_init.n_pings,
   n_samples |-> sample_data_init.n_samples,
   data_attributes |-> sample_data_init.data_attributes,
   ping_time |-> sample_data_init.ping_time,
   axes |-> sample_data_init.axes,
   arrays |-> sample_data_init.arrays]

\* no object
NoObj == processed_data(<<>>, 0, "")

\* sample_data._copy: deep copies of every registered attribute and of the
\* dimension counters into the new object
sample_data_copy(obj, pd_copy) ==
  [pd_copy EXCEPT !.n_pings = obj.n_pings,
                  !.n_samples = obj.n_samples,
                  !.data_attributes = obj.data_attributes,
                  !.ping_time = obj.ping_time,
                  !.axes = obj.axes,
                  !.arrays = obj.arrays]

\* processed_data.copy
copy(obj) ==
  LET pd_copy == [processed_data(obj.channel_id, obj.frequency, obj.data_type)
                    EXCEPT !.sample_thickness = obj.sample_thickness,
                           !.sample_offset = obj.sample_offset]
  IN sample_data_copy(obj, pd_copy)

\* processed_data._like(n_pings)
like(obj, n_pings) ==
  [processed_data(obj.channel_id, obj.frequency, obj.data_type)
     EXCEPT !.sample_thickness = obj.sample_thickness,
            !.sample_offset = obj.sample_offset]

\* processed_data.empty_like: the second call hands _like five arguments,
\* and processed_data._like takes one
empty_like(obj, n_pings) ==
  LET empty_obj == like(obj, n_pings)
  IN Ret(empty_obj, "TypeError")

\* an optional argument: <<>> is None, <<v>> is v
None == <<>>

\* an index_array argument that was not given
NoIndexArray == [none |-> TRUE, v |-> <<>>]

IndexArray(v) == [none |-> FALSE, v |-> v]

\* sample_data.get_indices(start_time=t, end_time=t, start_ping=p, end_ping=p):
\* the python indices of the pings in the range, the time taking precedence;
\* every ping when no bound is given.  Ping numbers count from 1.
get_indices(obj, ping_number, ping_time) ==
  LET n == Len(obj.ping_time)
      hit(i) == IF ping_time # None THEN obj.ping_time[i] = ping_time[1]
                ELSE IF ping_number # None THEN i = ping_number[1]
                ELSE TRUE
      RECURSIVE from(_)
      from(i) == IF i > n THEN <<>>
                 ELSE IF hit(i) THEN <<i - 1>> \o from(i + 1) ELSE from(i + 1)
  IN from(1)

\* the smaller of two numbers
Least(a, b) == IF a < b THEN a ELSE b

\* the rows of source array m written over the rows rows[k] of target array t
PutRows(t, rows, m) ==
  [i \in 1..Len(t) |->
     IF \E k \in 1..Len(rows) : rows[k] + 1 = i
     THEN m[CHOOSE k \in 1..Len(rows) : rows[k] + 1 = i]
     ELSE t[i]]

\* the rows of obj's array called name, absent samples when it has none
RowsOf(obj, name, n_samples) ==
  IF name \in DOMAIN obj.arrays THEN obj.arrays[name]
  ELSE [i \in 1..obj.n_pings |-> [j \in 1..n_samples |-> NaN]]

\* sample_data.replace: overwrite pings in place.  The rows are those of the
\* index array, or the min(source pings, pings left) rows from the one the
\* ping number or time resolves to; with none of the three there is no
\* replacement point.
sample_data_replace(obj, obj_to_insert, ping_number, ping_time, index_array) ==
  IF ping_number = None /\ ping_time = None /\ index_array.none
  THEN Ret(obj, "ValueError")
  ELSE IF obj.frequency # obj_to_insert.frequency
  THEN Ret(obj, "TypeError")
  ELSE
    LET found == get_indices(obj, ping_number, ping_time)
        count == Least(obj_to_insert.n_pings, obj.n_pings - found[1])
        rows == IF index_array.none
                THEN [k \in 1..count |-> found[1] + (k - 1)]
                ELSE index_array.v
    IN IF index_array.none /\ found = <<>> THEN Ret(obj, "IndexError")
       ELSE IF ~index_array.none /\
               (Len(rows) # obj_to_insert.n_pings
                \/ \E k \in 1..Len(rows) : rows[k] < 0 \/ rows[k] >= obj.n_pings)
       THEN Ret(obj, "IndexError")
       ELSE Ret([obj EXCEPT
                   !.ping_time = PutRows(obj.ping_time, rows, obj_to_insert.ping_time),
                   !.arrays = [n \in DOMAIN obj.arrays |->
                                 PutRows(obj.arrays[n], rows,
                                         RowsOf(obj_to_insert, n, obj.n_samples))]],
                OK)

\* the rows of m put at the final rows rows[k] of an array that grows by
\* Len(rows); the rows of t fill the other places in their order
MergeRows(t, rows, m) ==
  LET total == Len(t) + Len(rows)
      taken(i) == \E k \in 1..Len(rows) : rows[k] + 1 = i
      before(i) == Cardinality({j \in 1..i : ~taken(j)})
  IN [i \in 1..total |->
        IF taken(i) THEN m[CHOOSE k \in 1..Len(rows) : rows[k] + 1 = i]
        ELSE t[before(i)]]

\* sample_data.insert: grow the ping axis by the source's pings.  They go to
\* the rows of the index array, or in one block at (insert_after false) or
\* after (true) the ping the number or time resolves to.
sample_data_insert(obj, obj_to_insert, ping_number, ping_time, insert_after, index_array) ==
  IF ping_number = None /\ ping_time = None /\ index_array.none
  THEN Ret(obj, "ValueError")
  ELSE IF obj.frequency # obj_to_insert.frequency
  THEN Ret(obj, "TypeError")
  ELSE
    LET found == get_indices(obj, ping_number, ping_time)
        at == found[1] + (IF insert_after THEN 1 ELSE 0)
        k_new == obj_to_insert.n_pings
        rows == IF index_array.none
                THEN [k \in 1..k_new |-> at + (k - 1)]
                ELSE index_array.v
        total == obj.n_pings + k_new
    IN IF index_array.none /\ found = <<>> THEN Ret(obj, "IndexError")
       ELSE IF ~index_array.none /\
               (Len(rows) # k_new
                \/ (\E k \in 1..Len(rows) : rows[k] < 0 \/ rows[k] >= total)
                \/ (\E j, k \in 1..Len(rows) : j # k /\ rows[j] = rows[k]))
       THEN Ret(obj, "IndexError")
       ELSE Ret([obj EXCEPT
                   !.n_pings = total,
                   !.ping_time = MergeRows(obj.ping_time, rows, obj_to_insert.ping_time),
                   !.arrays = [n \in DOMAIN obj.arrays |->
                                 MergeRows(obj.arrays[n], rows,
                                           RowsOf(obj_to_insert, n, obj.n_samples))]],
                OK)


----------------------------------------------------------------------------
(* processed_data: replace and insert *)

\* the result of replace/insert: the object, obj_to_insert as the call
\* leaves it, and the exception raised
Ret3(obj, source, e) == [g |-> obj, src |-> source, err |-> e]

\* processed_data.replace.  "if (index_array)" takes the truth value of the
\* array: ValueError for more than one element, the element itself for one,
\* false for None.  The data type message reads self.data_type.data_type, an
\* attribute a str does not have.  The parent is called with no ping number,
\* no ping time and no index array.
replace(self, obj_to_insert, has_obj, ping_number, ping_time, index_array) ==
  IF ~index_array.none /\ Len(index_array.v) > 1
  THEN Ret3(self, obj_to_insert, "ValueError")
  ELSE
    LET truthy == ~index_array.none /\ Len(index_array.v) = 1 /\ index_array.v[1] # 0
        found == get_indices(self, ping_number, ping_time)
        idx == found[1]
        n_inserting == IF truthy THEN Len(index_array.v) ELSE self.n_pings - idx
        made == empty_like(self, n_inserting)
        obj == IF has_obj THEN obj_to_insert ELSE made.g
    IN IF ~truthy /\ found = <<>> THEN Ret3(self, obj_to_insert, "IndexError")
       ELSE IF ~has_obj /\ made.err # OK THEN Ret3(self, obj_to_insert, made.err)
       ELSE IF ~has_obj THEN Ret3(self, obj_to_insert, "AttributeError")
       ELSE IF self.data_type # obj.data_type THEN Ret3(self, obj, "AttributeError")
       ELSE IF ~hasattr(self, "range") /\ ~hasattr(self, "depth")
       THEN Ret3(self, obj, "AttributeError")
       ELSE LET it == interpolate(obj, VAxis(self))
                done == sample_data_replace(self, it.g, None, None, NoIndexArray)
            IN IF it.err # OK THEN Ret3(self, it.g, it.err)
               ELSE Ret3(done.g, it.g, done.err)

\* processed_data.insert
insert(self, obj_to_insert, has_obj, ping_number, ping_time, insert_after, index_array) ==
  LET found == get_indices(self, ping_number, ping_time)
      in_idx == found[1]
      n_inserting == IF index_array.none THEN self.n_pings - in_idx
                     ELSE Len(index_array.v)
      made == empty_like(self, n_inserting)
      obj == IF has_obj THEN obj_to_insert ELSE made.g
  IN IF index_array.none /\ found = <<>> THEN Ret3(self, obj_to_insert, "IndexError")
     ELSE IF ~has_obj /\ made.err # OK THEN Ret3(self, obj_to_insert, made.err)
     ELSE IF self.data_type # obj.data_type THEN Ret3(self, obj, "TypeError")
     ELSE IF ~hasattr(self, "range") /\ ~hasattr(self, "depth")
     THEN Ret3(self, obj, "AttributeError")
     ELSE LET it == interpolate(obj, VAxis(self))
              done == sample_data_insert(self, it.g, ping_number, ping_time,
                                         insert_after, index_array)
          IN IF it.err # OK THEN Ret3(self, it.g, it.err)
             ELSE Ret3(done.g, it.g, done.err)

----------------------------------------------------------------------------
(* Masks, and processed_data.__setitem__ / __getitem__ *)

\* mask.mask(like=obj): a boolean array tagged 'sample' (m2, the shape of the
\* sample data) or 'ping' (m1, one entry per ping), with copies of the
\* object's ping_time and, for a sample mask, of its vertical axis
mask_like(obj, type, m1, m2) ==
  [type |-> type, m1 |-> m1, m2 |-> m2, ping_time |-> obj.ping_time,
   axes |-> IF type = "sample" THEN obj.axes ELSE NoAttrs]

\* processed_data._check_mask: the exception it raises, OK when it returns
check_mask(obj, mask) ==
  IF ~ArrayEqual(obj.ping_time, mask.ping_time) THEN "ValueError"
  ELSE IF hasattr(mask, "range")
  THEN IF hasattr(obj, "range")
       THEN IF ~ArrayEqual(obj.axes["range"], mask.axes["range"]) THEN "ValueError"
            ELSE OK
       ELSE "AttributeError"
  ELSE IF hasattr(mask, "depth")
  THEN IF hasattr(obj, "depth")
       THEN IF ~ArrayEqual(obj.axes["depth"], mask.axes["depth"]) THEN "ValueError"
            ELSE OK
       ELSE "AttributeError"
  ELSE OK

\* the 2d boolean array a mask key selects with
sample_mask(obj, key) ==
  IF key.type = "sample" THEN key.m2
  ELSE [i \in 1..obj.n_pings |-> [j \in 1..obj.n_samples |-> key.m1[i]]]

\* the shape of a 2d array
Shape(m) == <<Len(m), IF Len(m) > 0 THEN Len(m[1]) ELSE 0>>

\* processed_data.__setitem__ with a mask key: attr[sample_mask] = value;
\* numpy raises IndexError for a boolean index of another shape
setitem_mask(obj, key, value) ==
  LET e == check_mask(obj, key)
      sm == sample_mask(obj, key)
  IN IF e # OK THEN Ret(obj, e)
     ELSE IF \E n \in DOMAIN obj.arrays : Shape(obj.arrays[n]) # Shape(sm)
     THEN Ret(obj, "IndexError")
     ELSE Ret([obj EXCEPT !.arrays = [n \in DOMAIN obj.arrays |->
                 [i \in 1..Len(obj.arrays[n]) |-> [j \in 1..Len(obj.arrays[n][i]) |->
                    IF sm[i][j] THEN value ELSE obj.arrays[n][i][j]]]]], OK)

\* attr[sample_mask]: the selected samples of a 2d array in row-major order
Selected(m, sm) ==
  LET RECURSIVE row(_, _)
      row(i, j) == IF j > Len(m[i]) THEN <<>>
                   ELSE (IF sm[i][j] THEN <<m[i][j]>> ELSE <<>>) \o row(i, j + 1)
      RECURSIVE rows(_)
      rows(i) == IF i > Len(m) THEN <<>> ELSE row(i, 1) \o rows(i + 1)
  IN rows(1)

\* processed_data.__getitem__ with a mask key: the selected samples of the
\* last 2d array of _data_attributes, as a flat array
getitem_mask(obj, key) ==
  LET e == check_mask(obj, key)
      sm == sample_mask(obj, key)
      names == Names2D(obj)
      attr == obj.arrays[names[Len(names)]]
  IN IF e # OK THEN [ret |-> <<>>, err |-> e]
     ELSE IF names = <<>> THEN [ret |-> <<>>, err |-> "UnboundLocalError"]
     ELSE IF Shape(attr) # Shape(sm) THEN [ret |-> <<>>, err |-> "IndexError"]
     ELSE [ret |-> Selected(attr, sm), err |-> OK]

\* int(round(a / float(b))) for a >= 0, b > 0: python rounds halves to even
RoundDiv(a, b) ==
  LET q == a \div b
      r == a % b
  IN IF 2 * r < b THEN q
     ELSE IF 2 * r > b THEN q + 1
     ELSE IF q % 2 = 0 THEN q ELSE q + 1

\* processed_data.__setitem__ with a slice key [start, stop, step]: replace
\* with the index array of the slice
setitem_slice(self, key, value) ==
  LET n == RoundDiv(key.stop - key.start, key.step)
      replace_idx == [k \in 1..n |-> (k - 1) * key.step + key.start]
  IN replace(self, value, TRUE, None, None, IndexArray(replace_idx))

\* the elements a python slice [start |-> .., stop |-> ..] picks of an array of
\* length n, as TLA+ indices; None is the array's end
SliceIdx(sl, n) ==
  LET lo == IF sl.start = None THEN 0 ELSE Least(sl.start[1], n)
      hi == IF sl.stop = None THEN n ELSE Least(sl.stop[1], n)
  IN [k \in 1..(hi - lo) |-> lo + k]

Slice1D(a, sl) == LET ix == SliceIdx(sl, Len(a)) IN [k \in 1..Len(ix) |-> a[ix[k]]]

Slice2D(m, key) ==
  LET rows == SliceIdx(key[1], Len(m))
  IN [i \in 1..Len(rows) |-> Slice1D(m[rows[i]], key[2])]

\* a registered 1d attribute
Attr1D(obj, name) == IF name = "ping_time" THEN obj.ping_time ELSE obj.axes[name]

\* setattr(obj, name, data) for a 1d attribute
SetAttr1D(obj, name, data) ==
  IF name = "ping_time" THEN [obj EXCEPT !.ping_time = data]
  ELSE [obj EXCEPT !.axes = PutKey(obj.axes, name, data)]

\* the loop of __getitem__ over self._data_attributes, from attribute i on:
\* a 1d attribute as long as n_pings is cut with the ping slice and sets
\* n_pings, any other with the sample slice and sets n_samples
RECURSIVE slice_attributes(_, _, _, _)
slice_attributes(self, key, p_data, i) ==
  IF i > Len(self.data_attributes) THEN p_data
  ELSE
    LET attr_name == self.data_attributes[i]
        attr == Attr1D(self, attr_name)
        by_ping == Slice1D(attr, key[1])
        by_sample == Slice1D(attr, key[2])
        next ==
          IF attr_name \in DOMAIN self.arrays
          THEN [p_data EXCEPT !.arrays =
                  PutKey(p_data.arrays, attr_name, Slice2D(self.arrays[attr_name], key))]
          ELSE IF Len(attr) = self.n_pings
          THEN [SetAttr1D(p_data, attr_name, by_ping) EXCEPT !.n_pings = Len(by_ping)]
          ELSE [SetAttr1D(p_data, attr_name, by_sample) EXCEPT !.n_samples = Len(by_sample)]
    IN slice_attributes(self, key, next, i + 1)

\* processed_data.__getitem__ with a key <<ping slice, sample slice>>.  The new
\* object starts from the constructor, whose sample_offset is 0.
getitem_slice(self, key) ==
  LET p0 == [processed_data(self.channel_id, self.frequency, self.data_type)
               EXCEPT !.sample_thickness = self.sample_thickness,
                      !.data_attributes = self.data_attributes]
      p_data == slice_attributes(self, key, p0, 1)
      start == key[2].start
  IN IF start # None /\ start[1] # 0
     THEN [p_data EXCEPT !.sample_offset = p_data.sample_offset + start[1]]
     ELSE p_data

\* numpy basic slicing returns views: for each attribute of the sliced object,
\* the rows and columns of self's array its elements are stored in
getitem_views(self, key) ==
  LET names == {self.data_attributes[i] : i \in 1..Len(self.data_attributes)}
  IN [n \in names |->
        IF n \in DOMAIN self.arrays
        THEN [rows |-> SliceIdx(key[1], Len(self.arrays[n])),
              cols |-> SliceIdx(key[2], self.n_samples)]
        ELSE IF Len(Attr1D(self, n)) = self.n_pings
        THEN [rows |-> SliceIdx(key[1], Len(Attr1D(self, n))), cols |-> <<>>]
        ELSE [rows |-> SliceIdx(key[2], Len(Attr1D(self, n))), cols |-> <<>>]]


----------------------------------------------------------------------------
(* The objects and arguments the model explores *)

\* a sample of row i, column j: dB for the log types, a power of ten for the
\* linear types
Cell(data_type, i, j) ==
  IF data_type \in {"Sv", "Sp"} THEN 10 * ((i + j) % 3)
  ELSE IF data_type \in {"sv", "sp"} THEN Pow10((i + j) % 3)
  ELSE 10 * i + j

\* an object as a reader hands it over: ping_time, the vertical axis and the
\* sample data arrays registered with add_attribute
MkData(data_type, names, axis_name, n_pings, n_samples, thickness, first, offset, time0) ==
  LET base == [processed_data(<<"ch1">>, 38000, data_type)
                 EXCEPT !.sample_thickness = thickness,
                        !.sample_offset = offset,
                        !.n_pings = n_pings,
                        !.n_samples = n_samples]
      with_time == add_attribute(base, "ping_time",
                                 [i \in 1..n_pings |-> time0 + 10 * (i - 1)])
      with_axis == add_attribute(with_time, axis_name, Arange(n_samples, thickness, first))
      RECURSIVE with_arrays(_, _)
      with_arrays(obj, k) ==
        IF k > Len(names) THEN obj
        ELSE with_arrays(add_attribute(obj, names[k],
               [i \in 1..n_pings |-> [j \in 1..n_samples |->
                  Cell(data_type, i + k - 1, j)]]), k + 1)
  IN with_arrays(with_axis, 1)

InitObjects ==
  { MkData("Sv", <<"Sv">>, "range", 2, 2, 1, 0, 0, 10),
    MkData("Sv", <<"Sv">>, "range", 2, 3, 2, 1, 1, 10),
    MkData("power", <<"power", "angles">>, "depth", 3, 2, 1, 4, 0, 10),
    MkData("sp", <<"sp">>, "range", 1, 3, 1, 0, 2, 10),
    MkData("Sp", <<"Sp">>, "depth", 2, 2, 200000, 600000, 0, 10) }

\* the spacing of the samples of obj's vertical axis
Spacing(obj) ==
  LET a == VAxis(obj)
  IN IF Len(a) >= 2 /\ a[2] # NaN THEN a[2] - a[1] ELSE obj.sample_thickness

\* an axis one unit off in its first sample
Nudged(a) == [a EXCEPT ![1] = @ + 1]

\* new vertical axes for interpolate: of 2..MaxSamples samples, starting on
\* the first or second sample of the current axis, with one or two times its
\* spacing; and the current axis one unit off where that is within the
\* tolerance of np.isclose
NewAxes(obj) ==
  { Arange(n, step, start) :
      n \in 2..MaxSamples,
      step \in {Spacing(obj), 2 * Spacing(obj)},
      start \in {VAxis(obj)[1], VAxis(obj)[1] + Spacing(obj)} }
  \cup { a \in {Nudged(VAxis(obj))} : AllClose(VAxis(obj), a) }

\* shifts for shift_pings: one value for all pings, or one per ping
Shifts(obj) ==
  { [scalar |-> TRUE, v |-> <<c>>] : c \in {0, Spacing(obj)} }
  \cup { [scalar |-> FALSE, v |-> v] : v \in [1..obj.n_pings -> {0, Spacing(obj)}] }
  \cup { [scalar |-> FALSE, v |-> [i \in 1..obj.n_pings |-> Spacing(obj)]] }

OtherType(data_type) == IF data_type = "power" THEN "Sv" ELSE "power"

\* objects to insert into obj or to replace pings of obj with: one or two
\* pings; the same axis, the axis one sample lower, one sample longer or one
\* sample shorter; the same data type or another
Sources(obj) ==
  LET n == obj.n_samples
      a1 == VAxis(obj)[1]
      s == Spacing(obj)
      made(dt, k, ns, first) == MkData(dt, <<dt>>, "range", k, ns, s, first, 0, 15)
  IN { made(obj.data_type, k, n, a1) : k \in 1..2 }
     \cup { made(obj.data_type, 1, n, a1 + s),
            made(obj.data_type, 1, n + 1, a1),
            made(OtherType(obj.data_type), 1, n, a1) }
     \cup (IF n >= 2 THEN {made(obj.data_type, 1, n - 1, a1)} ELSE {})

\* where to insert: a ping number, a ping time, or an index array naming the
\* final rows of the source's pings
InsertKeys(obj, source) ==
  { [ping_number |-> <<p>>, ping_time |-> None, index_array |-> NoIndexArray] :
      p \in {1, obj.n_pings} }
  \cup { [ping_number |-> None, ping_time |-> <<obj.ping_time[1]>>,
          index_array |-> NoIndexArray] }
  \cup { [ping_number |-> None, ping_time |-> None, index_array |-> IndexArray(v)] :
           v \in IF source.n_pings = 1 THEN {<<0>>, <<obj.n_pings>>}
                 ELSE {<<0, 2>>} }

\* which pings to replace: a ping number, a ping time, or an index array
ReplaceKeys(obj, source) ==
  { [ping_number |-> <<p>>, ping_time |-> None, index_array |-> NoIndexArray] :
      p \in {1, obj.n_pings} }
  \cup { [ping_number |-> None, ping_time |-> <<obj.ping_time[obj.n_pings]>>,
          index_array |-> NoIndexArray] }
  \cup { [ping_number |-> None, ping_time |-> None, index_array |-> IndexArray(v)] :
           v \in IF source.n_pings = 1 THEN {<<0>>, <<obj.n_pings - 1>>}
                 ELSE {<<0, obj.n_pings - 1>>} }

\* python slices: [start:stop] with either end left out or given
SliceOf(start, stop) == [start |-> start, stop |-> stop]

PingSlices(obj) ==
  { SliceOf(None, None), SliceOf(<<0>>, <<1>>) }
  \cup (IF obj.n_pings >= 2 THEN {SliceOf(<<1>>, <<obj.n_pings>>)} ELSE {})

SampleSlices(obj) ==
  { SliceOf(None, None), SliceOf(<<0>>, <<obj.n_samples>>), SliceOf(None, <<1>>) }
  \cup (IF obj.n_samples >= 2 THEN {SliceOf(<<1>>, <<obj.n_samples>>)} ELSE {})

\* masks: sample masks like obj (every sample; the first sample of the first
\* ping), a ping mask like obj (the first ping), a sample mask made for another
\* ping_time, and a sample mask tagged with the other vertical axis
Masks(obj) ==
  LET all == [i \in 1..obj.n_pings |-> [j \in 1..obj.n_samples |-> TRUE]]
      one == [i \in 1..obj.n_pings |-> [j \in 1..obj.n_samples |-> i = 1 /\ j = 1]]
      first == [i \in 1..obj.n_pings |-> i = 1]
      other == IF hasattr(obj, "range") THEN "depth" ELSE "range"
      moved == [obj EXCEPT !.ping_time = AddScalar(obj.ping_time, 1)]
      turned == [obj EXCEPT !.axes = PutKey(NoAttrs, other, VAxis(obj))]
  IN { mask_like(obj, "sample", <<>>, all),
       mask_like(obj, "sample", <<>>, one),
       mask_like(obj, "ping", first, <<>>),
       mask_like(moved, "sample", <<>>, one),
       mask_like(turned, "sample", <<>>, one) }

\* values assigned through a mask
MaskValues == {NaN, 10}


----------------------------------------------------------------------------
(* Storage shared between an object and a slice of it *)

\* no shared storage
NoViews == [x \in {} |-> [rows |-> <<>>, cols |-> <<>>]]

\* the object holding the views, read again after a write to base's arrays
ReadViews(view_obj, base, views) ==
  LET seen(n) == n \in DOMAIN views
      r(n) == views[n].rows
      c(n) == views[n].cols
  IN [view_obj EXCEPT
        !.arrays = [n \in DOMAIN view_obj.arrays |->
                      IF seen(n)
                      THEN [i \in 1..Len(r(n)) |-> [j \in 1..Len(c(n)) |->
                              base.arrays[n][r(n)[i]][c(n)[j]]]]
                      ELSE view_obj.arrays[n]],
        !.axes = [n \in DOMAIN view_obj.axes |->
                    IF seen(n) THEN [i \in 1..Len(r(n)) |-> base.axes[n][r(n)[i]]]
                    ELSE view_obj.axes[n]],
        !.ping_time = IF seen("ping_time")
                      THEN [i \in 1..Len(r("ping_time")) |->
                              base.ping_time[r("ping_time")[i]]]
                      ELSE view_obj.ping_time]

\* a 1d array of base after a write through the view of it
Write1D(a, rows, va) ==
  [i \in 1..Len(a) |->
     IF \E k \in 1..Len(rows) : rows[k] = i
     THEN va[CHOOSE k \in 1..Len(rows) : rows[k] = i]
     ELSE a[i]]

\* base after a write to the arrays of the object holding views of them
WriteViews(base, view_obj, views) ==
  LET seen(n) == n \in DOMAIN views
      r(n) == views[n].rows
      c(n) == views[n].cols
  IN [base EXCEPT
        !.arrays = [n \in DOMAIN base.arrays |->
                      IF seen(n)
                      THEN [i \in 1..Len(base.arrays[n]) |->
                              IF \E k \in 1..Len(r(n)) : r(n)[k] = i
                              THEN Write1D(base.arrays[n][i], c(n),
                                     view_obj.arrays[n][CHOOSE k \in 1..Len(r(n)) : r(n)[k] = i])
                              ELSE base.arrays[n][i]]
                      ELSE base.arrays[n]],
        !.axes = [n \in DOMAIN base.axes |->
                    IF seen(n) THEN Write1D(base.axes[n], r(n), view_obj.axes[n])
                    ELSE base.axes[n]],
        !.ping_time = IF seen("ping_time")
                      THEN Write1D(base.ping_time, r("ping_time"), view_obj.ping_time)
                      ELSE base.ping_time]

\* a[i] = v on a registered 1d attribute (i a python index)
setitem_1d(obj, name, i, v) ==
  SetAttr1D(obj, name, [Attr1D(obj, name) EXCEPT ![i + 1] = v])

----------------------------------------------------------------------------
(* The state machine *)

Init ==
  /\ g \in InitObjects
  /\ pre = g
  /\ src = NoObj
  /\ d = NoObj
  /\ alias = NoViews
  /\ op = [name |-> "init", err |-> OK]
  /\ nops = 0

\* what every call on g does besides its own effect; the derived object is
\* let go of
Called ==
  /\ pre' = g
  /\ nops' = nops + 1

Dropped ==
  /\ d' = NoObj
  /\ alias' = NoViews

\* np.interp needs increasing sample points
Resamplable(obj) == ~HasNaN(VAxis(obj))

Resize ==
  /\ nops < MaxOps
  /\ \E p \in 1..MaxPings, s \in 1..MaxSamples :
       LET r == resize(g, p, s)
       IN /\ g' = r.g
          /\ op' = [name |-> "resize", err |-> r.err,
                    new_ping_dim |-> p, new_sample_dim |-> s]
  /\ src' = NoObj
  /\ Called /\ Dropped

PadTop ==
  /\ nops < MaxOps
  /\ \E n \in 1..(MaxSamples - g.n_samples) :
       LET r == pad_top(g, n)
       IN /\ g' = r.g
          /\ op' = [name |-> "pad_top", err |-> r.err, n_samples |-> n]
  /\ src' = NoObj
  /\ Called /\ Dropped

Interpolate ==
  /\ nops < MaxOps
  /\ Resamplable(g)
  /\ \E a \in NewAxes(g) :
       LET r == interpolate(g, a)
       IN /\ g' = r.g
          /\ op' = [name |-> "interpolate", err |-> r.err, new_vaxis |-> a]
  /\ src' = NoObj
  /\ Called /\ Dropped

ShiftPings ==
  /\ nops < MaxOps
  /\ Resamplable(g)
  /\ \E vs \in Shifts(g), to_depth \in BOOLEAN :
       /\ g.n_samples + CeilDiv(Max(vs.v) - Min(vs.v), g.sample_thickness) <= MaxSamples
       /\ LET r == shift_pings(g, vs, to_depth)
          IN /\ g' = r.g
             /\ op' = [name |-> "shift_pings", err |-> r.err,
                       vert_shift |-> vs, to_depth |-> to_depth]
  /\ src' = NoObj
  /\ Called /\ Dropped

ToLinear ==
  /\ nops < MaxOps
  /\ g' = to_linear(g)
  /\ op' = [name |-> "to_linear", err |-> OK]
  /\ src' = NoObj
  /\ Called /\ Dropped

ToLog ==
  /\ nops < MaxOps
  /\ g' = to_log(g)
  /\ op' = [name |-> "to_log", err |-> OK]
  /\ src' = NoObj
  /\ Called /\ Dropped

Insert ==
  /\ nops < MaxOps
  /\ \E source \in Sources(g), has_obj \in BOOLEAN, insert_after \in BOOLEAN :
       \E key \in InsertKeys(g, source) :
         /\ g.n_pings + source.n_pings <= MaxPings
         /\ ~key.index_array.none => insert_after
         /\ ~has_obj => (source.n_pings = 1 /\ source.axes = g.axes /\ insert_after)
         /\ LET r == insert(g, source, has_obj, key.ping_number, key.ping_time,
                            insert_after, key.index_array)
            IN /\ g' = r.g
               /\ src' = r.src
               /\ op' = [name |-> "insert", err |-> r.err, source |-> source,
                         has_obj |-> has_obj, key |-> key,
                         insert_after |-> insert_after]
  /\ Called /\ Dropped

Replace ==
  /\ nops < MaxOps
  /\ \E source \in Sources(g), has_obj \in BOOLEAN :
       \E key \in ReplaceKeys(g, source) :
         /\ ~has_obj => (source.n_pings = 1 /\ source.axes = g.axes)
         /\ LET r == replace(g, source, has_obj, key.ping_number, key.ping_time,
                             key.index_array)
            IN /\ g' = r.g
               /\ src' = r.src
               /\ op' = [name |-> "replace", err |-> r.err, source |-> source,
                         has_obj |-> has_obj, key |-> key]
  /\ Called /\ Dropped

\* g[start:stop:step] = value
SetItemSlice ==
  /\ nops < MaxOps
  /\ \E source \in Sources(g), start \in 0..1, step \in 1..2 :
       /\ source.data_type = g.data_type /\ source.axes = g.axes
       /\ LET key == [start |-> start, stop |-> g.n_pings, step |-> step]
              r == setitem_slice(g, key, source)
          IN /\ g' = r.g
             /\ src' = r.src
             /\ op' = [name |-> "setitem_slice", err |-> r.err, source |-> source,
                       key |-> key]
  /\ Called /\ Dropped

\* g[mask] = value; a slice of g sees the write
SetItemMask ==
  /\ nops < MaxOps
  /\ \E key \in Masks(g), value \in MaskValues :
       LET r == setitem_mask(g, key, value)
       IN /\ g' = r.g
          /\ d' = ReadViews(d, r.g, alias)
          /\ op' = [name |-> "setitem_mask", err |-> r.err, key |-> key,
                    value |-> value]
  /\ src' = NoObj
  /\ Called
  /\ UNCHANGED alias

\* d = g[ping slice, sample slice]
GetItemSlice ==
  /\ nops < MaxOps
  /\ \E ps \in PingSlices(g), ss \in SampleSlices(g) :
       /\ d' = getitem_slice(g, <<ps, ss>>)
       /\ alias' = getitem_views(g, <<ps, ss>>)
       /\ op' = [name |-> "getitem_slice", err |-> OK, key |-> <<ps, ss>>]
  /\ src' = NoObj
  /\ Called
  /\ UNCHANGED g

\* values = g[mask]
GetItemMask ==
  /\ nops < MaxOps
  /\ \E key \in Masks(g) :
       LET r == getitem_mask(g, key)
       IN op' = [name |-> "getitem_mask", err |-> r.err, key |-> key, ret |-> r.ret]
  /\ src' = NoObj
  /\ Called
  /\ UNCHANGED <<g, d, alias>>

\* d = g.copy()
Copy ==
  /\ nops < MaxOps
  /\ d' = copy(g)
  /\ alias' = NoViews
  /\ op' = [name |-> "copy", err |-> OK]
  /\ src' = NoObj
  /\ Called
  /\ UNCHANGED g

\* d[mask] = value on the derived object; g sees a write to storage it shares
SetItemMaskDerived ==
  /\ nops < MaxOps
  /\ d # NoObj
  /\ \E key \in Masks(d), value \in MaskValues :
       LET r == setitem_mask(d, key, value)
       IN /\ d' = r.g
          /\ g' = WriteViews(g, r.g, alias)
          /\ op' = [name |-> "setitem_mask_derived", err |-> r.err, key |-> key,
                    value |-> value]
  /\ src' = NoObj
  /\ Called
  /\ UNCHANGED alias

\* d.ping_time[0] = v, d.range[0] = v or d.depth[0] = v on the derived object
SetElementDerived ==
  /\ nops < MaxOps
  /\ d # NoObj
  /\ \E name \in {"ping_time"} \cup DOMAIN d.axes :
       /\ Len(Attr1D(d, name)) > 0
       /\ LET w == setitem_1d(d, name, 0, 77)
          IN /\ d' = w
             /\ g' = WriteViews(g, w, alias)
             /\ op' = [name |-> "setitem_1d_derived", err |-> OK, attr |-> name]
  /\ src' = NoObj
  /\ Called
  /\ UNCHANGED alias

\* g.ping_time[0] = v, g.range[0] = v or g.depth[0] = v on the source object
SetElement ==
  /\ nops < MaxOps
  /\ \E name \in {"ping_time"} \cup DOMAIN g.axes :
       LET w == setitem_1d(g, name, 0, 77)
       IN /\ g' = w
          /\ d' = ReadViews(d, w, alias)
          /\ op' = [name |-> "setitem_1d", err |-> OK, attr |-> name]
  /\ src' = NoObj
  /\ Called
  /\ UNCHANGED alias

\* d.channel_id.append(id) on the derived object
AppendChannelDerived ==
  /\ nops < MaxOps
  /\ d # NoObj
  /\ d' = [d EXCEPT !.channel_id = Append(d.channel_id, "ch2")]
  /\ op' = [name |-> "append_channel_derived", err |-> OK]
  /\ src' = NoObj
  /\ Called
  /\ UNCHANGED <<g, alias>>

Next ==
  \/ Resize
  \/ PadTop
  \/ Interpolate
  \/ ShiftPings
  \/ ToLinear
  \/ ToLog
  \/ Insert
  \/ Replace
  \/ SetItemSlice
  \/ SetItemMask
  \/ GetItemSlice
  \/ GetItemMask

Spec == Init /\ [][Next]_vars

\* d = g.empty_like(n_pings); nothing is returned when it raises
EmptyLike ==
  /\ nops < MaxOps
  /\ \E n_pings \in 1..MaxPings :
       LET r == empty_like(g, n_pings)
       IN /\ d' = IF r.err = OK THEN r.g ELSE NoObj
          /\ op' = [name |-> "empty_like", err |-> r.err, n_pings |-> n_pings]
  /\ alias' = NoViews
  /\ src' = NoObj
  /\ Called
  /\ UNCHANGED g

\* slices, copies and empty likes of g, and writes to either side
NextDerived ==
  \/ GetItemSlice
  \/ Copy
  \/ EmptyLike
  \/ SetItemMask
  \/ SetItemMaskDerived
  \/ SetElement
  \/ SetElementDerived
  \/ AppendChannelDerived

SpecDerived == Init /\ [][NextDerived]_vars


----------------------------------------------------------------------------
(* Comparison operators *)

\* what a method that ends in pass returns
NoMask == [none |-> TRUE, type |-> "", mask |-> <<>>]

\* processed_data._is_like_me: the exception it raises, OK when it returns.
\* For an object without range the depths are read from the name mask, which
\* is the module mask and has no depth.
is_like_me(self, pd_object) ==
  IF ~ArrayEqual(self.ping_time, pd_object.ping_time) THEN "ValueError"
  ELSE IF hasattr(pd_object, "range")
  THEN IF hasattr(self, "range")
       THEN IF ~ArrayEqual(self.axes["range"], pd_object.axes["range"]) THEN "ValueError"
            ELSE OK
       ELSE "AttributeError"
  ELSE "AttributeError"

\* the right operand of a comparison: a scalar or a processed_data object
Scalar(v) == [scalar |-> TRUE, v |-> v, obj |-> NoObj]

Object(obj) == [scalar |-> FALSE, v |-> 0, obj |-> obj]

\* processed_data.__gt__: the mask is created and the other object checked;
\* the assignment to the mask is an unfinished statement (line 731) and the
\* method ends in pass
gt(self, other) ==
  LET e == IF other.scalar THEN OK ELSE is_like_me(self, other.obj)
  IN [ret |-> NoMask, err |-> e]

\* processed_data.__lt__
lt(self, other) == [ret |-> NoMask, err |-> OK]

\* processed_data.__ge__
ge(self, other) == [ret |-> NoMask, err |-> OK]

\* processed_data.__le__
le(self, other) == [ret |-> NoMask, err |-> OK]

\* processed_data.__eq__
eq(self, other) == [ret |-> NoMask, err |-> OK]

\* processed_data.__ne__
ne(self, other) == [ret |-> NoMask, err |-> OK]

Operators == {">", "<", ">=", "<=", "==", "!="}

\* self <operator> other
compare(operator, self, other) ==
  IF operator = ">" THEN gt(self, other)
  ELSE IF operator = "<" THEN lt(self, other)
  ELSE IF operator = ">=" THEN ge(self, other)
  ELSE IF operator = "<=" THEN le(self, other)
  ELSE IF operator = "==" THEN eq(self, other)
  ELSE ne(self, other)

\* right operands: a scalar, the object itself, and an object like it with
\* other values in the first ping
Others(obj) ==
  { Scalar(10), Object(obj),
    Object([obj EXCEPT !.arrays = [n \in DOMAIN obj.arrays |->
              [i \in 1..Len(obj.arrays[n]) |-> [j \in 1..Len(obj.arrays[n][i]) |->
                 IF i = 1 THEN 10 ELSE obj.arrays[n][i][j]]]]]) }

\* m = g <operator> other
Compare ==
  /\ nops < MaxOps
  /\ \E operator \in Operators, other \in Others(g) :
       LET r == compare(operator, g, other)
       IN /\ op' = [name |-> "compare", err |-> r.err, operator |-> operator,
                    other |-> other, ret |-> r.ret]
          /\ src' = other.obj
  /\ Called /\ Dropped
  /\ UNCHANGED g

\* comparisons, between writes through a mask and unit conversions
NextCompare ==
  \/ Compare
  \/ SetItemMask
  \/ ToLinear
  \/ ToLog

SpecCompare == Init /\ [][NextCompare]_vars

----------------------------------------------------------------------------
(* Properties *)

\* the fields of the grid the operations are specified to keep or to change
SameGrid(a, b) ==
  /\ a.n_pings = b.n_pings
  /\ a.n_samples = b.n_samples
  /\ a.axes = b.axes
  /\ a.sample_thickness = b.sample_thickness
  /\ a.data_type = b.data_type
  /\ a.arrays = b.arrays
  /\ a.ping_time = b.ping_time

\* C1: after every resize, pad_top, interpolate, shift_pings, to_linear,
\* to_log, insert and replace the object has exactly one of range and depth;
\* shift_pings(to_depth=True) on an object with range leaves depth and no
\* range, and shift_pings on an object with depth leaves the axis kind alone.
C1_ExactlyOneAxis ==
  /\ Cardinality(DOMAIN g.axes \cap AxisNames) = 1
  /\ (op.name = "shift_pings" /\ op.to_depth /\ hasattr(pre, "range"))
       => (hasattr(g, "depth") /\ ~hasattr(g, "range"))
  /\ (op.name = "shift_pings" /\ hasattr(pre, "depth"))
       => (hasattr(g, "depth") /\ ~hasattr(g, "range"))
  /\ (op.name = "shift_pings" /\ ~op.to_depth) => DOMAIN g.axes = DOMAIN pre.axes

\* a per-ping shift with to_depth=True has turned a range axis into depth
C1_Witness ==
  /\ op.name = "shift_pings"
  /\ op.to_depth
  /\ ~op.vert_shift.scalar
  /\ Max(op.vert_shift.v) # Min(op.vert_shift.v)
  /\ hasattr(pre, "range")
  /\ DOMAIN g.axes = {"depth"}


\* every 2d array is [n_pings, n_samples], ping_time has n_pings elements and
\* the vertical axis n_samples
ShapesAgree(obj) ==
  /\ \A n \in DOMAIN obj.arrays : Shape(obj.arrays[n]) = <<obj.n_pings, obj.n_samples>>
  /\ Len(obj.ping_time) = obj.n_pings
  /\ \A a \in DOMAIN obj.axes : Len(obj.axes[a]) = obj.n_samples

\* C2: the object the operations are called on, and every object a slice
\* [ping_slice, sample_slice] returns (also of an object with as many pings
\* as samples), has 2d arrays of shape [n_pings, n_samples], n_pings ping
\* times and n_samples vertical axis values.
C2_ShapesAgree ==
  /\ ShapesAgree(g)
  /\ op.name = "getitem_slice" => ShapesAgree(d)

\* the part of C2 the code keeps: the object itself, and the slices of an
\* object whose n_pings and n_samples differ
C2_ShapesAgreeUnlessSquare ==
  /\ ShapesAgree(g)
  /\ (op.name = "getitem_slice" /\ g.n_pings # g.n_samples) => ShapesAgree(d)

\* a slice of an object with as many pings as samples was taken
C2_Witness ==
  /\ op.name = "getitem_slice"
  /\ g.n_pings = g.n_samples
  /\ ~ShapesAgree(d)

\* the source of a replace or insert is of the target's data type and on the
\* target's vertical axis, so that its rows are merged as they are
Matching(source, target) ==
  /\ source.data_type = target.data_type
  /\ VAxis(source) = VAxis(target)

\* row i of every 2d array and ping time i of obj a equal row j and ping
\* time j of obj b, for the arrays both have
SameRow(a, i, b, j) ==
  /\ a.ping_time[i] = b.ping_time[j]
  /\ \A n \in (DOMAIN a.arrays) \cap (DOMAIN b.arrays) : a.arrays[n][i] = b.arrays[n][j]

\* C3: replace with an index array of k rows and a source of k pings
\* overwrites exactly the rows the index array names with the source's rows
\* and leaves every other row and ping time as it was.
C3_ReplaceIndexArray ==
  (/\ op.name = "replace"
   /\ op.has_obj
   /\ ~op.key.index_array.none
   /\ Len(op.key.index_array.v) = op.source.n_pings
   /\ Matching(op.source, pre))
  => LET v == op.key.index_array.v
     IN /\ Len(g.ping_time) = Len(pre.ping_time)
        /\ \A k \in 1..Len(v) : SameRow(g, v[k] + 1, op.source, k)
        /\ \A i \in 1..Len(pre.ping_time) :
             (\A k \in 1..Len(v) : v[k] + 1 # i) => SameRow(g, i, pre, i)

\* C4: replace at the row s a ping number or ping time resolves to keeps
\* n_pings, overwrites the min(source.n_pings, n_pings - s) rows from s with
\* the first rows of the source, and leaves the rows before and after alone.
C4_ReplaceFromPing ==
  (/\ op.name = "replace"
   /\ op.has_obj
   /\ op.key.index_array.none
   /\ Matching(op.source, pre))
  => LET s == get_indices(pre, op.key.ping_number, op.key.ping_time)[1]
         count == Least(op.source.n_pings, pre.n_pings - s)
     IN /\ g.n_pings = pre.n_pings
        /\ Len(g.ping_time) = Len(pre.ping_time)
        /\ \A k \in 1..count : SameRow(g, s + k, op.source, k)
        /\ \A i \in 1..pre.n_pings :
             (i <= s \/ i > s + count) => SameRow(g, i, pre, i)

\* the part of C4 the code keeps: replace never changes n_pings
C4_ReplaceKeepsPings ==
  op.name = "replace" => g.n_pings = pre.n_pings /\ Len(g.ping_time) = Len(pre.ping_time)

\* the rows of the grown object the inserted pings take, as TLA+ indices
InsertedAt(before, call) ==
  IF call.key.index_array.none
  THEN LET at == get_indices(before, call.key.ping_number, call.key.ping_time)[1]
                   + (IF call.insert_after THEN 1 ELSE 0)
       IN {at + k : k \in 1..call.source.n_pings}
  ELSE {call.key.index_array.v[k] + 1 : k \in 1..Len(call.key.index_array.v)}

\* C5: insert of a source of k pings (by ping number, ping time or index
\* array, after or at the row) grows n_pings by k, keeps n_samples, and keeps
\* the rows that were there in their order: those before the insertion point
\* at their index, those from it on after the inserted rows.
C5_InsertGrows ==
  (/\ op.name = "insert"
   /\ op.has_obj
   /\ op.source.data_type = pre.data_type)
  => LET ins == InsertedAt(pre, op)
         kept(i) == Cardinality({j \in 1..i : j \notin ins})
     IN /\ g.n_pings = pre.n_pings + op.source.n_pings
        /\ Len(g.ping_time) = g.n_pings
        /\ g.n_samples = pre.n_samples
        /\ \A i \in 1..Len(g.ping_time) :
             i \notin ins => SameRow(g, i, pre, kept(i))

\* the part of C5 the code keeps: a source with no more samples than the
\* target is merged as C5 says
C5_InsertGrowsUnlessLonger ==
  (op.name = "insert" /\ op.source.n_samples > pre.n_samples) \/ C5_InsertGrows

\* a source of the target's data type with more samples than the target was
\* handed to insert
C5_Witness ==
  /\ op.name = "insert"
  /\ op.has_obj
  /\ op.source.data_type = pre.data_type
  /\ op.source.n_samples > pre.n_samples
  /\ op.err = "ValueError"

\* the start of a python slice
StartOf(sl) == IF sl.start = None THEN 0 ELSE sl.start[1]

\* C6: the object a slice [ping_slice, sample_slice] returns has the source's
\* sample_offset plus the start of the sample slice (the source's
\* sample_offset for no start or start 0).
C6_SliceOffset ==
  op.name = "getitem_slice" => d.sample_offset = g.sample_offset + StartOf(op.key[2])

\* the part of C6 the code keeps: the offset of a slice is the start of the
\* sample slice
C6_SliceOffsetFromZero ==
  op.name = "getitem_slice" => d.sample_offset = StartOf(op.key[2])

\* C7: a replace, insert, interpolate, shift_pings or mask-keyed read or write
\* that ends in an error leaves the grid it was called on with the n_pings,
\* n_samples, vertical axis, sample_thickness, data_type and 2d arrays it had
\* before the call, also when interpolate is given a shorter axis.
C7_FailureKeepsGrid ==
  (/\ op.name \in {"replace", "insert", "interpolate", "shift_pings",
                   "getitem_mask", "setitem_mask"}
   /\ op.err # OK)
  => SameGrid(g, pre)

\* the part of C7 the code keeps: every failing call but interpolate leaves
\* the grid it was called on as it was
C7_FailureKeepsGridUnlessInterpolate ==
  (/\ op.name \in {"replace", "insert", "shift_pings", "getitem_mask", "setitem_mask"}
   /\ op.err # OK)
  => SameGrid(g, pre)

\* C8: replace and insert with a source of another data_type than the
\* target's fail with TypeError, with the source not interpolated and the
\* target unchanged.
C8_TypeMismatch ==
  (/\ op.name \in {"replace", "insert"}
   /\ op.has_obj
   /\ op.source.data_type # pre.data_type)
  => /\ op.err = "TypeError"
     /\ src = op.source
     /\ g = pre

\* the part of C8 the code keeps: insert fails with TypeError before anything
\* is changed, and replace fails, with some error, before anything is changed
C8_TypeMismatchFails ==
  (/\ op.name \in {"replace", "insert"}
   /\ op.has_obj
   /\ op.source.data_type # pre.data_type)
  => /\ op.err # OK
     /\ op.name = "insert" => op.err = "TypeError"
     /\ src = op.source
     /\ g = pre

\* the writes to the derived object, and the writes to its source
DerivedWrites == {"setitem_mask_derived", "setitem_1d_derived", "append_channel_derived"}

SourceWrites == {"setitem_mask", "setitem_1d"}

\* C9: a write to the 2d arrays, ping_time, vertical axis or channel_id of a
\* slice or copy leaves the grid it was taken from unchanged, and a write to
\* that grid leaves the slice or copy unchanged.
C9_NoSharedStorage ==
  [][/\ op'.name \in DerivedWrites => g' = g
     /\ (op'.name \in SourceWrites /\ d # NoObj) => d' = d]_vars

\* the part of C9 the code keeps: a copy shares nothing with its source, and
\* channel_id is never shared
C9_CopyIsIndependent ==
  [][/\ (op'.name \in DerivedWrites /\ alias = NoViews) => g' = g
     /\ (op'.name \in SourceWrites /\ d # NoObj /\ alias = NoViews) => d' = d
     /\ op'.name = "append_channel_derived" => g' = g]_vars

\* C10: interpolate with an axis of n_samples elements, each close to the
\* element of the current vertical axis, returns with the object as it was:
\* no resize, no conversion, no new sample_thickness, no resampled value.
C10_CloseAxisNoOp ==
  (/\ op.name = "interpolate"
   /\ Len(op.new_vaxis) = pre.n_samples
   /\ AllClose(VAxis(pre), op.new_vaxis))
  => (g = pre /\ op.err = OK)

\* interpolate was given an axis that is close to the current one without
\* being equal to it, on an object in log units
C10_Witness ==
  /\ op.name = "interpolate"
  /\ Len(op.new_vaxis) = pre.n_samples
  /\ AllClose(VAxis(pre), op.new_vaxis)
  /\ op.new_vaxis # VAxis(pre)
  /\ IsLogType(pre.data_type)
  /\ g = pre

\* interpolate was given the current axis of an object whose sample_thickness
\* an earlier interpolate has changed
C10_WitnessEqualAxis ==
  /\ op.name = "interpolate"
  /\ op.new_vaxis = VAxis(pre)
  /\ pre.sample_thickness # MeanDiff(op.new_vaxis)
  /\ g = pre

\* C11: resize(p, s) ends with n_pings = p, n_samples = s and a vertical axis
\* of s values, axis[i] = i * sample_thickness + old_axis[0] for every i < s.
C11_ResizeAxis ==
  (op.name = "resize" /\ op.err = OK /\ Resamplable(pre))
  => /\ g.n_pings = op.new_ping_dim
     /\ g.n_samples = op.new_sample_dim
     /\ VAxis(g) = Arange(op.new_sample_dim, pre.sample_thickness, VAxis(pre)[1])

\* the part of C11 the code keeps: the dimensions, the length of the axis and
\* the axis values that were there
C11_ResizeDims ==
  (op.name = "resize" /\ op.err = OK)
  => /\ g.n_pings = op.new_ping_dim
     /\ g.n_samples = op.new_sample_dim
     /\ Len(g.ping_time) = op.new_ping_dim
     /\ Len(VAxis(g)) = op.new_sample_dim
     /\ \A i \in 1..Least(op.new_sample_dim, pre.n_samples) : VAxis(g)[i] = VAxis(pre)[i]
     /\ \A i \in (pre.n_samples + 1)..op.new_sample_dim : VAxis(g)[i] = NaN

\* the linear data type of a log data type
LinearOf(data_type) == IF data_type = "Sv" THEN "sv" ELSE "sp"

\* what to_linear leaves of an object in log units, and of any other object
LinearStep ==
  op.name = "to_linear" =>
    IF IsLogType(pre.data_type)
    THEN /\ g.data_type = LinearOf(pre.data_type)
         /\ DOMAIN g.arrays = {LinearOf(pre.data_type)}
    ELSE g = pre

\* to_log right after to_linear of an object in log units gives back the data
\* type, the names of the arrays and every sample value (a sample that is
\* NaN stays NaN), and leaves the axis, the ping times and the dimensions alone
RoundTripStep ==
  (/\ op.name = "to_linear"
   /\ IsLogType(pre.data_type)
   /\ op'.name = "to_log")
  => /\ g'.data_type = pre.data_type
     /\ DOMAIN g'.arrays = {pre.data_type}
     /\ SameGrid(g', pre)

\* C12: to_linear followed by to_log restores an Sv (Sp) grid: data_type, the
\* array named Sv (Sp) and no array named sv (sp), every sample value; in
\* between data_type is sv (sp) with only the linear array.  to_linear of a
\* grid of another data type changes nothing.
C12_RoundTrip == [](LinearStep) /\ [][RoundTripStep]_vars

\* an object in log units as the reader handed it over has been through
\* to_linear and to_log and has its values back
C12_Witness ==
  \E o \in InitObjects :
    /\ IsLogType(o.data_type)
    /\ op.name = "to_log"
    /\ nops = 2
    /\ pre = to_linear(o)
    /\ pre.data_type = LinearOf(o.data_type)
    /\ g.data_type = o.data_type
    /\ g.arrays = o.arrays
    /\ \E i \in 1..o.n_pings, j \in 1..o.n_samples :
         o.arrays[o.data_type][i][j] # pre.arrays[pre.data_type][i][j]

\* to_linear was called on an object that is not in log units
C12_WitnessNoOp ==
  /\ op.name = "to_linear"
  /\ pre.data_type \in {"power", "sp", "sv"}
  /\ g = pre

\* every entry of a shift is zero
AllZero(vert_shift) == \A i \in 1..Len(vert_shift.v) : vert_shift.v[i] = 0

\* C13: shift_pings with a shift whose entries are all zero, to_depth false,
\* leaves every sample value, n_samples, data_type and the vertical axis as
\* they were.
C13_ZeroShift ==
  (/\ op.name = "shift_pings"
   /\ AllZero(op.vert_shift)
   /\ ~op.to_depth)
  => (op.err = OK /\ SameGrid(g, pre))

\* shift_pings was called with a vector of zeros, one for each of several
\* pings, on an object whose sample_thickness an earlier interpolate has set
\* to another spacing than its axis has
C13_Witness ==
  /\ op.name = "shift_pings"
  /\ ~op.vert_shift.scalar
  /\ Len(op.vert_shift.v) >= 2
  /\ AllZero(op.vert_shift)
  /\ ~op.to_depth
  /\ pre.sample_thickness # Spacing(pre)
  /\ g = pre

\* whether a mask key selects sample j of ping i: a sample mask by its entry,
\* a ping mask by the entry of the ping
Selects(key, i, j) == IF key.type = "sample" THEN key.m2[i][j] ELSE key.m1[i]

\* the cells of obj a mask key selects
SelectedCells(obj, key) ==
  { c \in (1..obj.n_pings) \X (1..obj.n_samples) : Selects(key, c[1], c[2]) }

\* the place of a selected cell in row-major order
RankOf(cells, c) ==
  Cardinality({ b \in cells : b[1] < c[1] \/ (b[1] = c[1] /\ b[2] <= c[2]) })

\* ret holds the values of the 2d array m at the selected cells, in row-major
\* order, and nothing more
ReadsFrom(ret, m, cells) ==
  /\ Len(ret) = Cardinality(cells)
  /\ \A c \in cells : ret[RankOf(cells, c)] = m[c[1]][c[2]]

\* C14: a read with a compatible mask returns a flat sequence of as many
\* values as the mask has true entries (a ping mask: true pings times
\* n_samples), the values of the array named after data_type at those cells
\* in row-major order, and leaves the grid as it was.
C14_MaskRead ==
  (op.name = "getitem_mask" /\ check_mask(pre, op.key) = OK)
  => /\ op.err = OK
     /\ ReadsFrom(op.ret, pre.arrays[pre.data_type], SelectedCells(pre, op.key))
     /\ g = pre

\* the part of C14 the code keeps: the length of the sequence, the grid left
\* alone, and the values of the 2d array that was registered last
C14_MaskReadLast ==
  (op.name = "getitem_mask" /\ check_mask(pre, op.key) = OK)
  => /\ op.err = OK
     /\ Len(op.ret) = Cardinality(SelectedCells(pre, op.key))
     /\ op.key.type = "ping" =>
          Len(op.ret) = Cardinality({i \in 1..pre.n_pings : op.key.m1[i]}) * pre.n_samples
     /\ LET names == Names2D(pre)
        IN ReadsFrom(op.ret, pre.arrays[names[Len(names)]], SelectedCells(pre, op.key))
     /\ Cardinality(DOMAIN pre.arrays) = 1 =>
          ReadsFrom(op.ret, pre.arrays[pre.data_type], SelectedCells(pre, op.key))
     /\ g = pre

\* a <operator> b for two samples, as numpy compares them: NaN is unequal to
\* everything and neither less nor greater
Cmp(operator, a, b) ==
  IF a = NaN \/ b = NaN THEN operator = "!="
  ELSE IF operator = ">" THEN a > b
  ELSE IF operator = "<" THEN a < b
  ELSE IF operator = ">=" THEN a >= b
  ELSE IF operator = "<=" THEN a <= b
  ELSE IF operator = "==" THEN a = b
  ELSE a # b

\* the grid other is compatible with the grid obj: same ping times, same
\* vertical axis of the same kind
Compatible(obj, other) ==
  /\ ArrayEqual(obj.ping_time, other.ping_time)
  /\ DOMAIN obj.axes = DOMAIN other.axes
  /\ ArrayEqual(VAxis(obj), VAxis(other))

\* C15: each of >, <, >=, <=, ==, != applied to a grid and a scalar or a
\* compatible grid returns a sample mask of shape [n_pings, n_samples] whose
\* entry [p, s] compares the live array's element [p, s] with the scalar or
\* the other grid's element [p, s], and leaves both operands as they were.
C15_Compare ==
  (/\ op.name = "compare"
   /\ op.other.scalar \/ Compatible(pre, op.other.obj))
  => /\ op.err = OK
     /\ ~op.ret.none
     /\ op.ret.type = "sample"
     /\ Shape(op.ret.mask) = <<pre.n_pings, pre.n_samples>>
     /\ \A p \in 1..pre.n_pings, s \in 1..pre.n_samples :
          op.ret.mask[p][s] =
            Cmp(op.operator, pre.arrays[pre.data_type][p][s],
                IF op.other.scalar THEN op.other.v
                ELSE op.other.obj.arrays[op.other.obj.data_type][p][s])
     /\ g = pre
     /\ src = op.other.obj

\* the part of C15 the code keeps: a comparison changes neither operand
C15_CompareKeepsOperands ==
  op.name = "compare" => (g = pre /\ src = op.other.obj)

\* C16: empty_like(n_pings=k) returns without error a new grid of k pings
\* with the source's n_samples, vertical axis, data_type, frequency,
\* sample_thickness and sample_offset and with every sample NaN, and leaves
\* the source as it was.
C16_EmptyLike ==
  op.name = "empty_like"
  => /\ op.err = OK
     /\ d.n_pings = op.n_pings
     /\ d.n_samples = g.n_samples
     /\ d.axes = g.axes
     /\ d.data_type = g.data_type
     /\ d.frequency = g.frequency
     /\ d.sample_thickness = g.sample_thickness
     /\ d.sample_offset = g.sample_offset
     /\ DOMAIN d.arrays = DOMAIN g.arrays
     /\ \A n \in DOMAIN d.arrays :
          d.arrays[n] = [i \in 1..op.n_pings |-> [j \in 1..g.n_samples |-> NaN]]
     /\ g = pre

\* the part of C16 the code keeps: the source is left as it was
C16_EmptyLikeKeepsSource ==
  op.name = "empty_like" => (g = pre /\ op.err = "TypeError" /\ d = NoObj)

\* interpolate returned for an axis that is not close to the one the object
\* had, of the same length or longer
Resampled ==
  /\ op.name = "interpolate"
  /\ op.err = OK
  /\ Len(op.new_vaxis) >= pre.n_samples
  /\ ~(Len(op.new_vaxis) = pre.n_samples /\ AllClose(VAxis(pre), op.new_vaxis))

\* C17: after interpolate(new_axis) returns for a new_axis that is not close
\* to the current axis (same length or longer) the vertical axis is new_axis,
\* n_samples is its length, sample_thickness the mean of its consecutive
\* differences and data_type what it was; and a source that insert has
\* interpolated has the target's vertical axis.
C17_InterpolateAxis ==
  /\ Resampled
       => /\ VAxis(g) = op.new_vaxis
          /\ g.n_samples = Len(op.new_vaxis)
          /\ g.sample_thickness = MeanDiff(op.new_vaxis)
          /\ g.data_type = pre.data_type
  /\ (op.name = "insert" /\ op.err = OK /\ op.has_obj)
       => VAxis(src) = VAxis(pre)

\* the part of C17 the code keeps: n_samples, sample_thickness and data_type,
\* with the axis attribute still holding the values it had
C17_InterpolateDims ==
  Resampled
  => /\ g.n_samples = Len(op.new_vaxis)
     /\ g.sample_thickness = MeanDiff(op.new_vaxis)
     /\ g.data_type = pre.data_type
     /\ Len(VAxis(g)) = Len(op.new_vaxis)
     /\ \A i \in 1..pre.n_samples : VAxis(g)[i] = VAxis(pre)[i]

\* a shift with the same nonzero value for every ping
ConstantShift(vert_shift) ==
  /\ vert_shift.v[1] # 0
  /\ \A i \in 1..Len(vert_shift.v) : vert_shift.v[i] = vert_shift.v[1]

\* the axis a shift by c of the axis of obj gives
ShiftedAxis(obj, c) == Arange(obj.n_samples, obj.sample_thickness, Min(VAxis(obj)) + c)

\* C18: shift_pings with the same nonzero shift c for every ping and to_depth
\* false resamples and resizes nothing (sample values and n_samples stay) and
\* assigns the shifted axis: the vertical axis is afterwards
\* arange(n_samples) * sample_thickness + min(old_axis) + c.
C18_ConstantShift ==
  (/\ op.name = "shift_pings"
   /\ ConstantShift(op.vert_shift)
   /\ ~op.to_depth)
  => /\ op.err = OK
     /\ g.arrays = pre.arrays
     /\ g.n_samples = pre.n_samples
     /\ VAxis(g) = ShiftedAxis(pre, op.vert_shift.v[1])

\* the part of C18 the code keeps: nothing is resampled or resized, the axis
\* stays as it was when to_depth is false, and a to_depth call on a range grid
\* stores the shifted axis as depth
C18_ConstantShiftKeepsAxis ==
  (op.name = "shift_pings" /\ ConstantShift(op.vert_shift))
  => /\ op.err = OK
     /\ g.arrays = pre.arrays
     /\ g.n_samples = pre.n_samples
     /\ ~op.to_depth => g = pre
     /\ (op.to_depth /\ hasattr(pre, "range"))
          => g.axes = PutKey(NoAttrs, "depth", ShiftedAxis(pre, op.vert_shift.v[1]))

============================================================================
